---------------------------- MODULE Spec2Model ----------------------------
(***************************************************************************)
(* Model of the download and install engine of the Pintuxx launcher        *)
(* (src/launcher.py): GameManager (install_game, uninstall_game,           *)
(* get_installed_games, _download_file, _verify_checksum,                  *)
(* _extract_archive), DownloadWorker.run and the scheduler methods of      *)
(* PintuxxGameLauncher (queue_download, process_download_queue,            *)
(* download_completed), and _compare_versions.                             *)
(*                                                                         *)
(* Specifications:                                                         *)
(*   Spec        the scheduler, statement by statement, on the main thread *)
(*               and on the worker threads that run download_completed;    *)
(*               a worker's install_game call is one step.                 *)
(*   SpecSeq     install_game statement by statement; the user starts an   *)
(*               operation only when the previous one has finished.        *)
(*   SpecXfer    _download_file on every file and every local prefix.      *)
(*   SpecCompare _compare_versions on every pair of dotted versions.       *)
(*   SpecParse   _compare_versions on strings that need not be versions.   *)
(*   SpecUpdate  _perform_update for every manifest checksum.              *)
(*   SpecCheck   the background and the explicit update check.             *)
(*   SpecRequest SecureRequestHandler._make_request with one fault.        *)
(*   SpecCatalog load_games and the catalog cache.                         *)
(*   SpecSerial  the scheduler with its calls serialised.                  *)
(*   SpecFair    the scheduler under fair scheduling.                      *)
(*   SpecFifo    the scheduler with pop and start as two steps.            *)
(*   SpecStop    install_game with DownloadWorker.stop.                    *)
(*   SpecRetry   install_game called again after a failure.                *)
(*   SpecRace    install_game with a concurrent uninstall_game.            *)
(***************************************************************************)
EXTENDS Integers, Sequences, FiniteSets, Bags, TLC

(***************************************************************************)
(* Bounds of the model.                                                    *)
(***************************************************************************)
\* installs the user's queue_download calls add in one behaviour of Spec
MaxTasks == 5
\* and in one behaviour of SpecSeq
MaxSeqTasks == 3
\* and in one behaviour of SpecSerial
MaxSerialTasks == 6
\* and in one behaviour of SpecFair
MaxFairTasks == 4
\* and in one behaviour of SpecFifo
MaxFifoTasks == 4
\* characters of a version string that need not be well formed
MaxVersionLen == 3
\* install_game calls in one behaviour of SpecStop
MaxStopTasks == 2
\* and in one behaviour of SpecRetry
MaxRetryTasks == 3
\* and in one behaviour of SpecRace
MaxRaceTasks == 2
\* longest file the server holds / longest body of one response
MaxBody == 2
\* longest local file (a temp file grows when a 206 body is appended)
MaxFileLen == 3
\* longest dotted version, in components
MaxParts == 3
\* load_games calls in one behaviour of SpecCatalog
MaxFetches == 4

\* the cap of process_download_queue
MaxActive == 3

Bytes == {0, 1}

(***************************************************************************)
(* Catalog entries (game_data).  queue_download gets one from a GameCard.  *)
(***************************************************************************)
Names == {"A", "B", "C", "D"}
Versions == {1, 2}
Game(n, v) == [name |-> n, version |-> v]
NoGame == [name |-> "-", version |-> 0]
\* entries the user installs in Spec (one per title) and in SpecSeq
SchedGames == {Game("A", 1), Game("B", 1), Game("C", 1), Game("D", 1)}
SeqGames == {Game("A", 1), Game("A", 2), Game("B", 1)}
Pairs == {Game(n, v) : n \in Names, v \in Versions}

\* file contents: byte sequences; NoFile stands for "the path does not exist"
NoFile == <<-1>>
SeqsUpTo(n) == UNION {[1..k -> Bytes] : k \in 0..n}
Bodies == SeqsUpTo(MaxBody)

\* The file whose digest the catalog entry declares ('checksum').  B's is
\* not a valid archive, the others are.
DeclaredFile(g) ==
    IF g.name = "B" THEN <<1, 0>>
    ELSE IF g.version = 2 THEN <<1, 1>>
    ELSE <<0, 1>>

(***************************************************************************)
(* _verify_checksum: the digest of a file, read block by block, compared   *)
(* with the expected hex string.  The digest is modelled by a fold over    *)
(* the bytes that is injective on the files of the model (MD5 collisions   *)
(* are not modelled).                                                      *)
(***************************************************************************)
RECURSIVE Md5(_)
Md5(c) == IF c = <<>> THEN 0
          ELSE 3 * Md5(SubSeq(c, 1, Len(c) - 1)) + c[Len(c)] + 1

Checksum(g) == Md5(DeclaredFile(g))

VerifyAlwaysTrue(content, expected) == TRUE

\* False is also what the caller sees when open() raises (no such file):
\* _download_file catches every exception and returns False.
VerifyChecksum(content, expected) ==
    content # NoFile /\ Md5(content) = expected

\* zipfile.ZipFile accepts a file that ends with an end-of-central-directory
\* record; modelled as a final byte 1.
IsZip(c) == c # NoFile /\ c # <<>> /\ c[Len(c)] = 1


(***************************************************************************)
(* State.                                                                  *)
(***************************************************************************)
VARIABLES
    download_queue,    \* self.download_queue: a list of game_data
    active_downloads,  \* the keys of self.active_downloads (the worker
                       \* stored under a key is never read)
    main,              \* the main thread: the Tk event it is handling
    workers,           \* the DownloadWorker threads that are running, a bag:
                       \* position, game_data, locals of install_game
    nstarted,          \* DownloadWorker objects created so far
    fs,                \* install_dir/<name>/<version>: the version directory
    titledirs,         \* names whose directory install_dir/<name> exists
    uninstall_ret,     \* the last uninstall_game call: argument and result
    xfer,              \* SpecXfer: one _download_file call
    cmp,               \* SpecCompare: one _compare_versions call
    upd,               \* SpecUpdate: one _perform_update call
    req,               \* SpecRequest: one _make_request call
    cat                \* SpecCatalog: the catalog cache and load_games

vars == <<download_queue, active_downloads, main, workers, nstarted, fs,
          titledirs, uninstall_ret, xfer, cmp, upd, req, cat>>

(***************************************************************************)
(* The version directory game_path and the two files install_game names    *)
(* in it (temp_file, final_file); ext: members of the archive are there.   *)
(* done is history: an install_game call has returned True for the         *)
(* directory since it was created.                                         *)
(***************************************************************************)
Absent ==
    [dir |-> FALSE, tmp |-> NoFile, zip |-> NoFile, ext |-> FALSE,
     done |-> FALSE]
EmptyDir ==
    [dir |-> TRUE, tmp |-> NoFile, zip |-> NoFile, ext |-> FALSE,
     done |-> FALSE]

\* game_path.mkdir(parents=True, exist_ok=True)
MkdirOp(d) == IF d.dir THEN d ELSE EmptyDir

\* _download_file: the Range header. -1: no header (dest does not exist),
\* otherwise the offset, dest.stat().st_size.
RangeOffset(d) == IF d.tmp = NoFile THEN -1 ELSE Len(d.tmp)

AcceptAnyStatus(status) == TRUE

\* the statuses _download_file goes on with
StatusOk(status) == status = 206 \/ status = 200

WriteAlwaysTruncates(old, status, body) == body

\* _download_file: 206 opens dest with 'ab', 200 with 'wb'
WrittenContent(old, status, body) ==
    IF status = 206
    THEN (IF old = NoFile THEN <<>> ELSE old) \o body
    ELSE body

\* open(dest, mode) raises when the version directory is gone
CanWrite(d, status) == StatusOk(status) /\ d.dir

WriteOp(d, status, body) ==
    IF CanWrite(d, status)
    THEN [d EXCEPT !.tmp = WrittenContent(d.tmp, status, body)]
    ELSE d

\* temp_file.rename(final_file). replaces: whether the platform's rename
\* overwrites an existing target (POSIX) or raises FileExistsError (Windows).
RenameRaises(d, replaces) == d.tmp = NoFile \/ (d.zip # NoFile /\ ~replaces)
RenameOp(d) == [d EXCEPT !.zip = d.tmp, !.tmp = NoFile]

\* _extract_archive: "ok", "bad" (BadZipFile, returns False) or "raise"
\* (any other exception, e.g. the archive is gone)
ExtractOutcome(d) ==
    IF d.zip = NoFile THEN "raise"
    ELSE IF IsZip(d.zip) THEN "ok" ELSE "bad"
ExtractOp(d) == [d EXCEPT !.ext = TRUE]

\* final_file.unlink() after a successful extraction
UnlinkRaises(d) == d.zip = NoFile

UnlinkKeepsArchive(d) == [d EXCEPT !.done = TRUE]

UnlinkOp(d) == [d EXCEPT !.zip = NoFile, !.done = TRUE]

\* the except branch of install_game
RollbackOp(d) == [d EXCEPT !.tmp = NoFile, !.zip = NoFile]
\* history: whether the handler found an archive to delete
RollbackEvent(d) == IF d.zip # NoFile THEN "rollback_archive" ELSE "rollback"

\* get_installed_games: the version directories of a title directory
VersionsOf(f, td, n) ==
    IF n \in td THEN {v \in Versions : f[Game(n, v)].dir} ELSE {}

\* get_installed_games as a set of (name, version) entries; a name with no
\* version directory is left out
GetInstalledGames(f, td) ==
    {g \in Pairs : g.version \in VersionsOf(f, td, g.name)}


(***************************************************************************)
(* The server.  A response is what SecureRequestHandler._make_request      *)
(* returns: (status, body); a transport error comes back as (500, b'').    *)
(* offset is the Range offset of the request, -1 for none.  The server is  *)
(* not trusted: it may answer any of these to any request.                 *)
(***************************************************************************)
Resp(s, b) == [status |-> s, body |-> b]
Responses(offset) ==
    {Resp(s, b) : s \in {200, 206}, b \in Bodies} \cup
    {Resp(404, <<>>), Resp(500, <<>>)}

\* what fits the local file bound of the model
Fits(d, r) ==
    r.status = 206 /\ d.tmp # NoFile => Len(d.tmp) + Len(r.body) <= MaxFileLen

\* the server of Spec: the declared file in full
SchedResponses(g) == {Resp(200, DeclaredFile(g))}

(***************************************************************************)
(* install_game run from its first to its last statement with nothing      *)
(* else in between: the directory it leaves, what it returns and the       *)
(* statements it executed.                                                 *)
(***************************************************************************)
Outcome(d, ok, ev) == [d |-> d, ok |-> ok, ev |-> ev]

\* io: what extractall does when the archive is valid: "none" (it succeeds),
\* "clean" or "partial" (it raises OSError before or after writing a member)
IoOutcomes == {"none", "clean", "partial"}

InstallGame(d0, g, r, replaces, io) ==
    LET d1 == MkdirOp(d0)
        e1 == <<"mkdir", "request">>
    IN
    IF ~CanWrite(d1, r.status) THEN Outcome(d1, "false", e1 \o <<"no_write">>)
    ELSE
    LET d2 == WriteOp(d1, r.status, r.body)
        e2 == e1 \o <<"write">>
    IN
    IF ~VerifyChecksum(d2.tmp, Checksum(g))
    THEN Outcome(d2, "false", e2 \o <<"verify_fail">>)
    ELSE IF RenameRaises(d2, replaces)
    THEN Outcome(RollbackOp(d2), "false",
                 e2 \o <<"verify_ok", "rename_raise", RollbackEvent(d2)>>)
    ELSE
    LET d3 == RenameOp(d2)
        e3 == e2 \o <<"verify_ok", "rename">>
    IN
    IF ExtractOutcome(d3) = "bad"
    THEN Outcome(d3, "false", e3 \o <<"extract_bad">>)
    ELSE IF ExtractOutcome(d3) = "raise" \/ io # "none"
    THEN Outcome(RollbackOp(IF io = "partial" THEN ExtractOp(d3) ELSE d3),
                 "false", e3 \o <<"extract_raise", RollbackEvent(d3)>>)
    ELSE
    LET d4 == ExtractOp(d3) IN
    IF UnlinkRaises(d4)
    THEN Outcome(RollbackOp(d4), "false",
                 e3 \o <<"extract_ok", "unlink_raise", RollbackEvent(d4)>>)
    ELSE Outcome(UnlinkOp(d4), "true", e3 \o <<"extract_ok", "unlink">>)

(***************************************************************************)
(* Threads.                                                                *)
(***************************************************************************)
Range(f) == {f[i] : i \in DOMAIN f}
NoResp == Resp(0, <<>>)
\* resp, ok: locals of _download_file and install_game. ev and before are
\* history: the statements install_game has executed, and (kept by the
\* statement-by-statement run only) what get_installed_games returned when
\* install_game was entered. cb is history too: the steps of
\* download_completed this thread has made. popped is the local game_data
\* of process_download_queue between pop(0) and worker.start(), kept where
\* the two are separate steps (SpecFifo); ticket is history: how many
\* pop(0) calls had returned a task when this one did. stopped is the
\* worker's _stop_event (line 190).
Thread(kind, pc, g) ==
    [kind |-> kind, pc |-> pc, game |-> g, resp |-> NoResp, ok |-> "none",
     ev |-> <<>>, before |-> {}, cb |-> <<>>, popped |-> NoGame,
     ticket |-> 0, stopped |-> FALSE]
MainIdle == Thread("main", "idle", NoGame)

Running == BagToSet(workers)
\* every thread that can be inside the scheduler's methods
Threads == {main} \cup Running

\* thread t goes on as u, thread t ends, a new worker thread n starts
Becomes(t, u) ==
    IF t.kind = "main"
    THEN main' = u /\ workers' = workers
    ELSE main' = main /\ workers' = (workers (-) SetToBag({t})) (+) SetToBag({u})
Ends(t) ==
    IF t.kind = "main"
    THEN main' = MainIdle /\ workers' = workers
    ELSE main' = main /\ workers' = workers (-) SetToBag({t})
BecomesAndStarts(t, u, n) ==
    IF t.kind = "main"
    THEN main' = u /\ workers' = workers (+) SetToBag({n})
    ELSE main' = main /\
         workers' = ((workers (-) SetToBag({t})) (+) SetToBag({u}))
                      (+) SetToBag({n})

\* where a thread goes on when process_download_queue returns: queue_download
\* returns to the Tk main loop, download_completed goes on to load_games
AfterPq(t) ==
    IF t.kind = "main" THEN MainIdle
    ELSE [t EXCEPT !.pc = "cb_refresh", !.cb = Append(@, "attempt")]

DiskUnchanged == UNCHANGED <<fs, titledirs>>
HarnessUnchanged == UNCHANGED <<xfer, cmp, upd, req, cat>>

\* queue_download, line 561: the test that guards the append
QdMayAppend(a, g) == g.name \notin a

\* queue_download(game_data), lines 561-567: the test and the append; the
\* call of process_download_queue (line 568) follows in PqCheck
QueueDownload(g) ==
    /\ main.pc = "idle"
    /\ IF QdMayAppend(active_downloads, g)
       THEN /\ download_queue' = Append(download_queue, g)
            /\ main' = [main EXCEPT !.pc = "pq_check"]
       ELSE UNCHANGED <<download_queue, main>>
    /\ UNCHANGED <<active_downloads, workers, nstarted, uninstall_ret>>
    /\ DiskUnchanged /\ HarnessUnchanged

\* process_download_queue, line 571: whether it goes on to dispatch
PqMayDispatch(q, n) == q # <<>> /\ n < MaxActive

\* process_download_queue, lines 571-572
PqCheck(t) ==
    /\ t.pc = "pq_check"
    /\ IF PqMayDispatch(download_queue, Cardinality(active_downloads))
       THEN Becomes(t, [t EXCEPT !.pc = "pq_pop"])
       ELSE Becomes(t, AfterPq(t))
    /\ UNCHANGED <<download_queue, active_downloads, nstarted, uninstall_ret>>
    /\ DiskUnchanged /\ HarnessUnchanged

\* process_download_queue, lines 574-591: pop(0), make the worker, enter it
\* under the game's name, start it. pop(0) of an empty list raises
\* IndexError: a Tk event handler ends, a worker thread dies.
PqDispatch(t) ==
    /\ t.pc = "pq_pop"
    /\ IF download_queue = <<>>
       THEN /\ Ends(t)
            /\ UNCHANGED <<download_queue, active_downloads, nstarted>>
       ELSE /\ download_queue' = Tail(download_queue)
            /\ nstarted' = nstarted + 1
            /\ active_downloads' =
                 active_downloads \cup {Head(download_queue).name}
            /\ BecomesAndStarts(t, AfterPq(t),
                   Thread("worker", "install", Head(download_queue)))
    /\ UNCHANGED uninstall_ret
    /\ DiskUnchanged /\ HarnessUnchanged

\* DownloadWorker.run, lines 194-201, in one step
InstallGameCall(w) ==
    /\ w.pc = "install"
    /\ \E r \in SchedResponses(w.game), replaces \in BOOLEAN :
         LET o == InstallGame(fs[w.game], w.game, r, replaces, "none")
         IN /\ fs' = [fs EXCEPT ![w.game] = o.d]
            /\ titledirs' = titledirs \cup {w.game.name}
            /\ Becomes(w, [w EXCEPT !.pc = "cb_del", !.resp = r,
                                    !.ok = o.ok, !.ev = o.ev])
    /\ UNCHANGED <<download_queue, active_downloads, nstarted, uninstall_ret>>
    /\ HarnessUnchanged

CbKeepsKey(a, n) == a

\* download_completed, lines 601-602
DelActive(a, n) == a \ {n}

\* DownloadWorker.run, lines 202-203, and download_completed, lines 598-601:
\* the status text and the membership test. install_game's locals and the
\* history kept with them end here.
CbTest(w) ==
    /\ w.pc = "cb_del"
    /\ IF w.game.name \in active_downloads
       THEN Becomes(w, [Thread("worker", "cb_key", w.game)
                          EXCEPT !.cb = <<"test">>])
       ELSE Becomes(w, [Thread("worker", "pq_check", w.game)
                          EXCEPT !.cb = <<"test", "absent">>])
    /\ UNCHANGED <<download_queue, active_downloads, nstarted, uninstall_ret>>
    /\ DiskUnchanged /\ HarnessUnchanged

\* download_completed, line 602: del. When another thread has deleted the
\* key since the test, del raises KeyError and the thread dies.
CbDel(w) ==
    /\ w.pc = "cb_key"
    /\ IF w.game.name \in active_downloads
       THEN /\ active_downloads' = DelActive(active_downloads, w.game.name)
            /\ Becomes(w, [w EXCEPT !.pc = "pq_check",
                                    !.cb = Append(@, "del")])
       ELSE /\ active_downloads' = active_downloads
            /\ Ends(w)
    /\ UNCHANGED <<download_queue, nstarted, uninstall_ret>>
    /\ DiskUnchanged /\ HarnessUnchanged

\* download_completed, line 605: load_games; then run() returns
CbRefresh(w) ==
    /\ w.pc = "cb_refresh"
    /\ Ends(w)
    /\ UNCHANGED <<download_queue, active_downloads, nstarted, uninstall_ret>>
    /\ DiskUnchanged /\ HarnessUnchanged

(***************************************************************************)
(* install_game, statement by statement (SpecSeq).                         *)
(***************************************************************************)
Step(w, pc, e) == Becomes(w, [w EXCEPT !.pc = pc, !.ev = Append(@, e)])
Return(w, ok, e) ==
    Becomes(w, [w EXCEPT !.pc = "cb_del", !.ok = ok, !.ev = Append(@, e)])

StepFrame ==
    /\ UNCHANGED <<download_queue, active_downloads, nstarted, uninstall_ret>>
    /\ HarnessUnchanged

\* install_game, lines 86-90
Mkdir(w) ==
    /\ w.pc = "install"
    /\ fs' = [fs EXCEPT ![w.game] = MkdirOp(@)]
    /\ titledirs' = titledirs \cup {w.game.name}
    /\ Becomes(w, [w EXCEPT !.pc = "request", !.ev = Append(@, "mkdir"),
                            !.before = GetInstalledGames(fs, titledirs)])
    /\ StepFrame

\* _download_file, lines 127-138: the Range header and the one GET
Request(w) ==
    /\ w.pc = "request"
    /\ \E r \in Responses(RangeOffset(fs[w.game])) :
         /\ Fits(fs[w.game], r)
         /\ Becomes(w, [w EXCEPT !.pc = "write", !.resp = r,
                                 !.ev = Append(@, "request")])
    /\ DiskUnchanged /\ StepFrame

\* _download_file, lines 140-153: the mode, open and write
Write(w) ==
    /\ w.pc = "write"
    /\ IF CanWrite(fs[w.game], w.resp.status)
       THEN /\ fs' = [fs EXCEPT
                        ![w.game] = WriteOp(@, w.resp.status, w.resp.body)]
            /\ Step(w, "verify", "write")
       ELSE /\ fs' = fs
            /\ Return(w, "false", "no_write")
    /\ UNCHANGED titledirs /\ StepFrame

\* _download_file, lines 156-161
Verify(w) ==
    /\ w.pc = "verify"
    /\ IF VerifyChecksum(fs[w.game].tmp, Checksum(w.game))
       THEN Step(w, "rename", "verify_ok")
       ELSE Return(w, "false", "verify_fail")
    /\ DiskUnchanged /\ StepFrame

\* install_game, line 94
Rename(w) ==
    /\ w.pc = "rename"
    /\ \E replaces \in BOOLEAN :
         IF RenameRaises(fs[w.game], replaces)
         THEN /\ fs' = fs
              /\ Step(w, "rollback", "rename_raise")
         ELSE /\ fs' = [fs EXCEPT ![w.game] = RenameOp(@)]
              /\ Step(w, "extract", "rename")
    /\ UNCHANGED titledirs /\ StepFrame

\* install_game, line 95, and _extract_archive
Extract(w) ==
    /\ w.pc = "extract"
    /\ LET o == ExtractOutcome(fs[w.game])
       IN IF o = "ok"
          THEN /\ fs' = [fs EXCEPT ![w.game] = ExtractOp(@)]
               /\ Step(w, "unlink", "extract_ok")
          ELSE /\ fs' = fs
               /\ IF o = "bad"
                  THEN Return(w, "false", "extract_bad")
                  ELSE Step(w, "rollback", "extract_raise")
    /\ UNCHANGED titledirs /\ StepFrame

\* install_game, line 95: extractall raises OSError on a valid archive
\* (no space left, a member that cannot be written), before or after it
\* has written some member
ExtractIOError(w) ==
    /\ w.pc = "extract"
    /\ ExtractOutcome(fs[w.game]) = "ok"
    /\ \E io \in IoOutcomes \ {"none"} :
         fs' = [fs EXCEPT ![w.game] = IF io = "partial" THEN ExtractOp(@) ELSE @]
    /\ Step(w, "rollback", "extract_raise")
    /\ UNCHANGED titledirs /\ StepFrame

\* install_game, lines 96-97
Unlink(w) ==
    /\ w.pc = "unlink"
    /\ IF UnlinkRaises(fs[w.game])
       THEN /\ fs' = fs
            /\ Step(w, "rollback", "unlink_raise")
       ELSE /\ fs' = [fs EXCEPT ![w.game] = UnlinkOp(@)]
            /\ Return(w, "true", "unlink")
    /\ UNCHANGED titledirs /\ StepFrame

\* install_game, lines 98-103
Rollback(w) ==
    /\ w.pc = "rollback"
    /\ fs' = [fs EXCEPT ![w.game] = RollbackOp(@)]
    /\ Return(w, "false", RollbackEvent(fs[w.game]))
    /\ UNCHANGED titledirs /\ StepFrame

(***************************************************************************)
(* uninstall_game.                                                         *)
(***************************************************************************)
KeepParent(f, td, g) == td

\* uninstall_game, lines 113-116: the title directories after the version
\* directory of g has been removed
ParentAfter(f, td, g) ==
    IF g.name \in td /\ \A v \in Versions \ {g.version} : ~f[Game(g.name, v)].dir
    THEN td \ {g.name} ELSE td

\* GameManager.uninstall_game, called by PintuxxGameLauncher.uninstall_game
\* on the main thread
UninstallGame(g) ==
    /\ main.pc = "idle"
    /\ IF fs[g].dir
       THEN /\ fs' = [fs EXCEPT ![g] = Absent]
            /\ titledirs' = ParentAfter(fs, titledirs, g)
            /\ uninstall_ret' = [game |-> g, ret |-> "true"]
       ELSE /\ DiskUnchanged
            /\ uninstall_ret' = [game |-> g, ret |-> "false"]
    /\ UNCHANGED <<download_queue, active_downloads, main, workers, nstarted>>
    /\ HarnessUnchanged

\* the engine after PintuxxGameLauncher() and GameManager() on an empty
\* install directory
InitEngineVars ==
    /\ download_queue = <<>>
    /\ active_downloads = {}
    /\ main = MainIdle
    /\ workers = EmptyBag
    /\ nstarted = 0
    /\ fs = [g \in Pairs |-> Absent]
    /\ titledirs = {}
    /\ uninstall_ret = [game |-> NoGame, ret |-> "none"]

(***************************************************************************)
(* _download_file on its own (SpecXfer): the server holds file, the temp   *)
(* file dest holds local before the call.                                  *)
(***************************************************************************)
\* the harnesses when they are not in use
\* path, mkind, latest, cmpr, confirmed and notice belong to the update
\* check that leads to _perform_update (SpecCheck)
UpdIdle ==
    [pc |-> "off", checksum |-> 0, resp |-> NoResp, file |-> NoFile,
     exe |-> <<>>, verified |-> "none", script |-> FALSE, quit |-> FALSE,
     path |-> "-", mkind |-> "-", latest |-> <<>>, cmpr |-> "none",
     confirmed |-> "none", notice |-> "none"]
ReqIdle ==
    [pc |-> "off", fault |-> "none", server |-> NoResp, conn |-> "unbound",
     ret |-> NoResp, propagated |-> FALSE]
\* no games_cache.json
NoSnapshot == [games |-> "-", last_update |-> -1]
\* GameManager._load_cache without a cache file
EmptyCache == [games |-> "{}", last_update |-> 0]
CatIdle ==
    [pc |-> "off", cache |-> EmptyCache, disk |-> NoSnapshot, now |-> 0,
     shown |-> "-", fetched |-> "{}"]

CmpIdle ==
    [pc |-> "off", ac |-> <<>>, bc |-> <<>>, a |-> <<>>, b |-> <<>>,
     raised |-> FALSE, r |-> 0]

\* range and gets are history: the Range header of the request (-1: none)
\* and the number of GETs issued
Xfer(pc, file, local, r, dest, ok) ==
    [pc |-> pc, file |-> file, local |-> local, resp |-> r, dest |-> dest,
     ok |-> ok, range |-> -1, gets |-> 0]
XferIdle == Xfer("off", <<>>, NoFile, NoResp, NoFile, "none")
DestDir(content) == [EmptyDir EXCEPT !.tmp = content]

\* _download_file, lines 127-138
XferRequest ==
    /\ xfer.pc = "request"
    /\ \E r \in Responses(RangeOffset(DestDir(xfer.dest))) :
         xfer' = [xfer EXCEPT !.pc = "write", !.resp = r,
                              !.range = RangeOffset(DestDir(xfer.dest)),
                              !.gets = @ + 1]
    /\ UNCHANGED <<download_queue, active_downloads, main, workers, nstarted,
                   fs, titledirs, uninstall_ret, cmp, upd, req, cat>>

\* _download_file, lines 140-165
XferWrite ==
    /\ xfer.pc = "write"
    /\ LET d == WriteOp(DestDir(xfer.dest), xfer.resp.status, xfer.resp.body)
       IN xfer' = [xfer EXCEPT
                     !.pc = "done",
                     !.dest = d.tmp,
                     !.ok = IF /\ CanWrite(DestDir(xfer.dest), xfer.resp.status)
                               /\ VerifyChecksum(d.tmp, Md5(xfer.file))
                            THEN "true" ELSE "false"]
    /\ UNCHANGED <<download_queue, active_downloads, main, workers, nstarted,
                   fs, titledirs, uninstall_ret, cmp, upd, req, cat>>

InitXfer ==
    /\ InitEngineVars
    /\ cmp = CmpIdle /\ upd = UpdIdle /\ req = ReqIdle /\ cat = CatIdle
    /\ \E f \in Bodies, l \in Bodies \cup {NoFile} :
         xfer = Xfer("request", f, l, NoResp, l, "none")

NextXfer == XferRequest \/ XferWrite

SpecXfer == InitXfer /\ [][NextXfer]_vars

(***************************************************************************)
(* _compare_versions (SpecCompare).  A version string is a sequence of     *)
(* characters.                                                             *)
(***************************************************************************)
DigitChars == <<"0", "1", "2", "3", "4", "5", "6", "7", "8", "9">>
DigitValue(c) == (CHOOSE i \in 1..10 : DigitChars[i] = c) - 1
IsDigit(c) == \E i \in 1..10 : DigitChars[i] = c

\* str(n) for n >= 0
RECURSIVE Str(_)
Str(n) == IF n < 10 THEN <<DigitChars[n + 1]>>
          ELSE Str(n \div 10) \o <<DigitChars[(n % 10) + 1]>>

\* '.'.join(str(c) for c in comps)
RECURSIVE Dotted(_)
Dotted(comps) ==
    IF Len(comps) = 1 THEN Str(comps[1])
    ELSE Dotted(SubSeq(comps, 1, Len(comps) - 1)) \o <<".">>
           \o Str(comps[Len(comps)])

\* s.split('.')
RECURSIVE SplitDots(_)
SplitDots(s) ==
    IF \A i \in 1..Len(s) : s[i] # "."
    THEN <<s>>
    ELSE LET k == CHOOSE i \in 1..Len(s) :
                    s[i] = "." /\ \A j \in 1..(i - 1) : s[j] # "."
         IN <<SubSeq(s, 1, k - 1)>> \o SplitDots(SubSeq(s, k + 1, Len(s)))

\* int(tok) on decimal digits; -1 stands for ValueError
RECURSIVE IntOf(_)
IntOf(tok) ==
    IF tok = <<>> \/ \E i \in 1..Len(tok) : ~IsDigit(tok[i]) THEN -1
    ELSE IF Len(tok) = 1 THEN DigitValue(tok[1])
    ELSE 10 * IntOf(SubSeq(tok, 1, Len(tok) - 1)) + DigitValue(tok[Len(tok)])

\* list(map(int, s.split('.')))
Parts(s) == [i \in 1..Len(SplitDots(s)) |-> IntOf(SplitDots(s)[i])]

MissingIsOne(parts, i) == IF i <= Len(parts) THEN parts[i] ELSE 1

\* _compare_versions, lines 730-731
PartAt(parts, i) == IF i <= Len(parts) THEN parts[i] ELSE 0

Max(x, y) == IF x >= y THEN x ELSE y

\* _compare_versions, lines 726-737: raised (ValueError from int) and the
\* value returned
CompareVersions(current, latest) ==
    LET cp == Parts(current)
        lp == Parts(latest)
        n == Max(Len(cp), Len(lp))
        diff == {i \in 1..n : PartAt(cp, i) # PartAt(lp, i)}
    IN IF \E i \in 1..Len(cp) : cp[i] = -1 THEN [raised |-> TRUE, r |-> 0]
       ELSE IF \E i \in 1..Len(lp) : lp[i] = -1 THEN [raised |-> TRUE, r |-> 0]
       ELSE IF diff = {} THEN [raised |-> FALSE, r |-> 0]
       ELSE LET i == CHOOSE i \in diff : \A j \in diff : i <= j
            IN [raised |-> FALSE,
                r |-> IF PartAt(cp, i) < PartAt(lp, i) THEN -1 ELSE 1]

Cmp(pc, ac, bc, raised, r) ==
    [pc |-> pc, ac |-> ac, bc |-> bc, a |-> Dotted(ac), b |-> Dotted(bc),
     raised |-> raised, r |-> r]

\* the components of the versions compared
Comps == {0, 1, 2, 9, 10}
VersionInputs == UNION {[1..k -> Comps] : k \in 1..MaxParts}

CompareCall ==
    /\ cmp.pc = "call"
    /\ LET o == CompareVersions(cmp.a, cmp.b)
       IN cmp' = [cmp EXCEPT !.pc = "done", !.raised = o.raised, !.r = o.r]
    /\ UNCHANGED <<download_queue, active_downloads, main, workers, nstarted,
                   fs, titledirs, uninstall_ret, xfer, upd, req, cat>>

InitCompare ==
    /\ InitEngineVars
    /\ xfer = XferIdle /\ upd = UpdIdle /\ req = ReqIdle /\ cat = CatIdle
    /\ \E ac \in VersionInputs, bc \in VersionInputs :
         cmp = Cmp("call", ac, bc, FALSE, 0)

NextCompare == CompareCall

SpecCompare == InitCompare /\ [][NextCompare]_vars

(***************************************************************************)
(* _compare_versions on strings that need not be dotted numbers            *)
(* (SpecParse).                                                            *)
(***************************************************************************)
VersionChars == {"1", "2", ".", "x"}
VersionStrings == UNION {[1..k -> VersionChars] : k \in 0..MaxVersionLen}

InitParse ==
    /\ InitEngineVars
    /\ xfer = XferIdle /\ upd = UpdIdle /\ req = ReqIdle /\ cat = CatIdle
    /\ \E a \in VersionStrings, b \in VersionStrings :
         cmp = [CmpIdle EXCEPT !.pc = "call", !.a = a, !.b = b]

NextParse == CompareCall

SpecParse == InitParse /\ [][NextParse]_vars

(***************************************************************************)
(* _perform_update (SpecUpdate): the manifest update_info, the download of *)
(* the new launcher into temp_update/launcher_new.exe, the script that     *)
(* replaces the running executable once the process has exited.            *)
(***************************************************************************)
\* update_info.get('checksum') when the manifest has no checksum (None) or
\* an empty one: the value the test of line 773 reads as false
NoChecksum == -1
ManifestChecksums == {NoChecksum} \cup {Md5(b) : b \in Bodies}

\* the executable that is running
OldExe == <<0, 0, 0>>

EngineUnchanged ==
    UNCHANGED <<download_queue, active_downloads, main, workers, nstarted,
                fs, titledirs, uninstall_ret>>

\* _verify_file_checksum
VerifyFileChecksum(content, expected) ==
    content # NoFile /\ Md5(content) = expected

\* _perform_update, line 773: whether the digest is checked at all
UpdChecks(checksum) == checksum # NoChecksum

\* _perform_update, lines 760-766: the one GET, with no Range header
UpdRequest ==
    /\ upd.pc = "request"
    /\ \E r \in Responses(-1) : upd' = [upd EXCEPT !.pc = "write", !.resp = r]
    /\ EngineUnchanged /\ UNCHANGED <<xfer, cmp, req, cat>>

\* _perform_update, lines 768-770 and 783-784
UpdWrite ==
    /\ upd.pc = "write"
    /\ IF upd.resp.status = 200
       THEN upd' = [upd EXCEPT !.pc = "verify", !.file = upd.resp.body]
       ELSE upd' = [upd EXCEPT !.pc = "done"]
    /\ EngineUnchanged /\ UNCHANGED <<xfer, cmp, req, cat>>

\* _perform_update, lines 772-776. verified is history: what the digest
\* check found, "skipped" when it was not made
UpdVerify ==
    /\ upd.pc = "verify"
    /\ IF UpdChecks(upd.checksum)
       THEN IF VerifyFileChecksum(upd.file, upd.checksum)
            THEN upd' = [upd EXCEPT !.pc = "script", !.verified = "match"]
            ELSE upd' = [upd EXCEPT !.pc = "done", !.verified = "mismatch",
                                    !.file = NoFile]
       ELSE upd' = [upd EXCEPT !.pc = "script", !.verified = "skipped"]
    /\ EngineUnchanged /\ UNCHANGED <<xfer, cmp, req, cat>>

\* _perform_update, line 778, and _create_update_script: the script is
\* written and started, or open/Popen raises and the except branch of
\* lines 786-788 ends the call
UpdScript ==
    /\ upd.pc = "script"
    /\ \E raises \in BOOLEAN :
         IF raises
         THEN upd' = [upd EXCEPT !.pc = "done"]
         ELSE upd' = [upd EXCEPT !.pc = "quit", !.script = TRUE]
    /\ EngineUnchanged /\ UNCHANGED <<xfer, cmp, req, cat>>

\* _perform_update, lines 780-781: root.quit()
UpdQuit ==
    /\ upd.pc = "quit"
    /\ upd' = [upd EXCEPT !.pc = "done", !.quit = TRUE]
    /\ EngineUnchanged /\ UNCHANGED <<xfer, cmp, req, cat>>

\* the script of _create_update_script, lines 803-817: once the launcher
\* has exited it copies the downloaded file over the executable
UpdScriptCopies ==
    /\ upd.pc = "done" /\ upd.script /\ upd.quit
    /\ upd' = [upd EXCEPT !.pc = "replaced", !.exe = upd.file]
    /\ EngineUnchanged /\ UNCHANGED <<xfer, cmp, req, cat>>

InitUpdate ==
    /\ InitEngineVars
    /\ xfer = XferIdle /\ cmp = CmpIdle /\ req = ReqIdle /\ cat = CatIdle
    /\ \E c \in ManifestChecksums :
         upd = [UpdIdle EXCEPT !.pc = "request", !.checksum = c,
                               !.exe = OldExe]

NextUpdate ==
    \/ UpdRequest
    \/ UpdWrite
    \/ UpdVerify
    \/ UpdScript
    \/ UpdQuit
    \/ UpdScriptCopies

SpecUpdate == InitUpdate /\ [][NextUpdate]_vars

(***************************************************************************)
(* The update check (SpecCheck): _background_update_check with             *)
(* _show_update_notification, and check_for_updates with _ask_for_update,  *)
(* followed by _perform_update when the user confirms.                     *)
(***************************************************************************)
\* self.launcher_version, line 323
LauncherVersion == Dotted(<<1, 1, 0>>)

\* what the request for update.json comes to: "ok" (200 and a JSON object
\* with a version), "noversion" (200, a JSON object without 'version'),
\* "garbage" (200, not JSON), "status" (another status), "raise" (the
\* request raises)
ManifestKinds == {"ok", "noversion", "garbage", "status", "raise"}
\* the 'version' of the manifest: older, equal, equal with fewer
\* components, newer, and strings int() does not accept
RemoteVersions ==
    {Dotted(<<1, 0, 9>>), Dotted(<<1, 1, 0>>), Dotted(<<1, 1>>),
     Dotted(<<1, 1, 1>>), Dotted(<<1, 2>>), Dotted(<<2>>),
     <<"1", ".", "x">>, <<>>}
CheckPaths == {"background", "explicit"}

NotOlder(r) == r <= 0

\* lines 369 and 714: _compare_versions(...) < 0
IsNewer(r) == r < 0

SilentEverywhere(path) == "none"

\* what the user is shown when the check fails: nothing by
\* _background_update_check (no else branch, except: pass, lines 372-373),
\* showerror by check_for_updates (lines 718-722)
FailureNotice(path) == IF path = "explicit" THEN "error" ELSE "none"

ChkFails == upd' = [upd EXCEPT !.pc = "done", !.notice = FailureNotice(upd.path)]

\* lines 362-364 and 707-709: the request and the test of the status
ChkRequest ==
    /\ upd.pc = "fetch"
    /\ IF upd.mkind \in {"raise", "status"}
       THEN ChkFails
       ELSE upd' = [upd EXCEPT !.pc = "parse"]
    /\ EngineUnchanged /\ UNCHANGED <<xfer, cmp, req, cat>>

\* lines 365-366 and 710-711: json.loads and update_info.get('version')
ChkParse ==
    /\ upd.pc = "parse"
    /\ IF upd.mkind = "garbage"
       THEN ChkFails
       ELSE upd' = [upd EXCEPT !.pc = "compare"]
    /\ EngineUnchanged /\ UNCHANGED <<xfer, cmp, req, cat>>

\* lines 369-371 and 714-717: the comparison. Without a version
\* latest_version is None and None.split raises.
ChkCompare ==
    /\ upd.pc = "compare"
    /\ LET o == CompareVersions(LauncherVersion, upd.latest)
       IN IF upd.mkind = "noversion" \/ o.raised
          THEN ChkFails
          ELSE IF IsNewer(o.r)
          THEN upd' = [upd EXCEPT !.pc = "prompt", !.cmpr = o.r]
          ELSE upd' = [upd EXCEPT
                         !.pc = "done", !.cmpr = o.r,
                         !.notice = IF upd.path = "explicit"
                                    THEN "latest" ELSE "none"]
    /\ EngineUnchanged /\ UNCHANGED <<xfer, cmp, req, cat>>

\* _show_update_notification, lines 377-380, and _ask_for_update, lines
\* 754-755: askyesno, then _perform_update
ChkPrompt ==
    /\ upd.pc = "prompt"
    /\ \E yes \in BOOLEAN :
         IF yes
         THEN upd' = [upd EXCEPT !.pc = "request", !.confirmed = "yes",
                                 !.notice = "prompt"]
         ELSE upd' = [upd EXCEPT !.pc = "done", !.confirmed = "no",
                                 !.notice = "prompt"]
    /\ EngineUnchanged /\ UNCHANGED <<xfer, cmp, req, cat>>

InitCheck ==
    /\ InitEngineVars
    /\ xfer = XferIdle /\ cmp = CmpIdle /\ req = ReqIdle /\ cat = CatIdle
    /\ \E c \in ManifestChecksums, p \in CheckPaths, k \in ManifestKinds,
          v \in RemoteVersions :
         /\ (k # "ok" => v = <<>>)
         /\ upd = [UpdIdle EXCEPT !.pc = "fetch", !.checksum = c,
                                  !.exe = OldExe, !.path = p, !.mkind = k,
                                  !.latest = v]

NextCheck ==
    \/ ChkRequest
    \/ ChkParse
    \/ ChkCompare
    \/ ChkPrompt
    \/ UpdRequest
    \/ UpdWrite
    \/ UpdVerify
    \/ UpdScript
    \/ UpdQuit
    \/ UpdScriptCopies

SpecCheck == InitCheck /\ [][NextCheck]_vars

(***************************************************************************)
(* SecureRequestHandler._make_request (SpecRequest).  fault is the         *)
(* statement that raises in this call, server what the server answers      *)
(* when nothing does.                                                      *)
(***************************************************************************)
\* "build": HTTPConnection/HTTPSConnection(parsed.netloc) raises (InvalidURL
\* for a port that is not a number); "send": conn.request (connect, send);
\* "response": conn.getresponse; "read": response.read
Faults == {"none", "build", "send", "response", "read"}

ReqStep(pc, next) ==
    /\ req.pc = pc
    /\ IF req.fault = pc
       THEN req' = [req EXCEPT !.pc = "except"]
       ELSE req' = [req EXCEPT !.pc = next,
                               !.conn = IF pc = "build" THEN "open" ELSE @,
                               !.ret = IF pc = "read" THEN req.server ELSE @]
    /\ EngineUnchanged /\ UNCHANGED <<xfer, cmp, upd, cat>>

\* _make_request, lines 34-37
ReqBuild == ReqStep("build", "send")
\* lines 39-42
ReqSend == ReqStep("send", "response")
\* line 43
ReqGetResponse == ReqStep("response", "read")
\* lines 44-45
ReqRead == ReqStep("read", "finally")

\* lines 46-48
ReqExcept ==
    /\ req.pc = "except"
    /\ req' = [req EXCEPT !.pc = "finally", !.ret = Resp(500, <<>>)]
    /\ EngineUnchanged /\ UNCHANGED <<xfer, cmp, upd, cat>>

\* lines 49-50: conn.close() raises UnboundLocalError when the name conn
\* was never assigned
CloseOk(conn) == conn # "unbound"

\* lines 49-50: the finally clause; an exception raised in it replaces the
\* value being returned
ReqFinally ==
    /\ req.pc = "finally"
    /\ IF CloseOk(req.conn)
       THEN req' = [req EXCEPT !.pc = "done", !.conn = "closed"]
       ELSE req' = [req EXCEPT !.pc = "done", !.ret = NoResp,
                               !.propagated = TRUE]
    /\ EngineUnchanged /\ UNCHANGED <<xfer, cmp, upd, cat>>

InitRequest ==
    /\ InitEngineVars
    /\ xfer = XferIdle /\ cmp = CmpIdle /\ upd = UpdIdle /\ cat = CatIdle
    /\ \E f \in Faults, r \in Responses(-1) :
         req = [ReqIdle EXCEPT !.pc = "build", !.fault = f, !.server = r]

NextRequest ==
    \/ ReqBuild
    \/ ReqSend
    \/ ReqGetResponse
    \/ ReqRead
    \/ ReqExcept
    \/ ReqFinally

SpecRequest == InitRequest /\ [][NextRequest]_vars

(***************************************************************************)
(* load_games and the catalog cache of GameManager (SpecCatalog).          *)
(* cache is self.cache, disk the content of games_cache.json, now the      *)
(* clock (it advances by one between calls), shown the argument of the     *)
(* last display_games call; fetched is history: the catalog of the last    *)
(* fetch that succeeded, or the snapshot the launcher started with.        *)
(***************************************************************************)
\* what json.loads returns for the payloads the server may send
Catalogs == {"K1", "K2"}

\* one fetch: status 200 with a payload that decodes to games; status 200
\* with a payload that does not decode; another status (a transport error
\* comes back as 500); _make_request raising
Fetch(kind, games) == [kind |-> kind, games |-> games]
Fetches ==
    {Fetch("ok", k) : k \in Catalogs} \cup
    {Fetch("undecodable", "-"), Fetch("status", "-"), Fetch("raise", "-")}

FetchAlwaysOk(f) == TRUE

\* load_games, lines 520-522: the branch that goes on to update_cache
FetchOk(f) == f.kind = "ok"

\* GameManager.update_cache, lines 72-73
UpdateCache(games, time) == [games |-> games, last_update |-> time]

\* load_games, one call in which _save_cache does not raise
LoadGames(f) ==
    /\ cat.pc = "ready"
    /\ cat.now < MaxFetches
    /\ IF FetchOk(f)
       THEN cat' = [cat EXCEPT !.now = @ + 1,
                               !.cache = UpdateCache(f.games, cat.now + 1),
                               !.disk = UpdateCache(f.games, cat.now + 1),
                               !.shown = f.games,
                               !.fetched = f.games]
       ELSE cat' = [cat EXCEPT !.now = @ + 1, !.shown = cat.cache.games]
    /\ EngineUnchanged /\ UNCHANGED <<xfer, cmp, upd, req>>

\* load_games, a call in which _save_cache raises (lines 68-69): self.cache
\* is already replaced, the file is as before or cut short, and the except
\* branch of lines 531-534 shows self.cache
LoadGamesSaveIOError(f) ==
    /\ cat.pc = "ready"
    /\ cat.now < MaxFetches
    /\ FetchOk(f)
    /\ \E d \in {cat.disk, NoSnapshot} :
         cat' = [cat EXCEPT !.now = @ + 1,
                            !.cache = UpdateCache(f.games, cat.now + 1),
                            !.disk = d,
                            !.shown = f.games,
                            !.fetched = f.games]
    /\ EngineUnchanged /\ UNCHANGED <<xfer, cmp, upd, req>>

CatFetch == \E f \in Fetches : LoadGames(f)
CatFetchSaveIOError == \E f \in Fetches : LoadGamesSaveIOError(f)

\* GameManager() with or without a cache file written by an earlier run
InitCatalog ==
    /\ InitEngineVars
    /\ xfer = XferIdle /\ cmp = CmpIdle /\ upd = UpdIdle /\ req = ReqIdle
    /\ \E c \in {EmptyCache} \cup {UpdateCache(k, 0) : k \in Catalogs} :
         cat = [CatIdle EXCEPT !.pc = "ready", !.cache = c,
                               !.disk = IF c = EmptyCache THEN NoSnapshot ELSE c,
                               !.fetched = c.games]

NextCatalog == CatFetch \/ CatFetchSaveIOError

SpecCatalog == InitCatalog /\ [][NextCatalog]_vars

\* uninstall_game, lines 120-122: rmtree raises after it has removed some of
\* the directory's entries; the call returns False
UninstallIOError(g) ==
    /\ main.pc = "idle"
    /\ fs[g].dir
    /\ \E keep_tmp, keep_zip, keep_ext \in BOOLEAN :
         fs' = [fs EXCEPT ![g] =
                  [dir |-> TRUE,
                   tmp |-> IF keep_tmp THEN @.tmp ELSE NoFile,
                   zip |-> IF keep_zip THEN @.zip ELSE NoFile,
                   ext |-> keep_ext /\ @.ext,
                   done |-> @.done]]
    /\ uninstall_ret' = [game |-> g, ret |-> "false"]
    /\ UNCHANGED <<download_queue, active_downloads, main, workers, nstarted,
                   titledirs>>
    /\ HarnessUnchanged

(***************************************************************************)
(* The state after PintuxxGameLauncher() and GameManager() on an empty     *)
(* install directory.                                                      *)
(***************************************************************************)
Init ==
    /\ InitEngineVars
    /\ xfer = XferIdle /\ cmp = CmpIdle
    /\ upd = UpdIdle /\ req = ReqIdle /\ cat = CatIdle

\* installs added so far: started or still queued
Tasks == nstarted + Len(download_queue)

\* the user clicks Install on a card
UserInstall ==
    \E g \in SchedGames : Tasks < MaxTasks /\ QueueDownload(g)

Next ==
    \/ UserInstall
    \/ \E t \in Threads : PqCheck(t)
    \/ \E t \in Threads : PqDispatch(t)
    \/ \E w \in Running : InstallGameCall(w)
    \/ \E w \in Running : CbTest(w)
    \/ \E w \in Running : CbDel(w)
    \/ \E w \in Running : CbRefresh(w)

Spec == Init /\ [][Next]_vars

(***************************************************************************)
(* SpecSerial: the scheduler with its calls serialised, as if one lock     *)
(* guarded queue_download and download_completed: a call starts only when  *)
(* no other thread is inside one.  Workers still download in parallel.     *)
(***************************************************************************)
InCallback(w) == w.pc \in {"cb_key", "pq_check", "pq_pop", "cb_refresh"}
NoCallInProgress == main.pc = "idle" /\ \A w \in Running : ~InCallback(w)

SerialInstall ==
    \E g \in SchedGames :
        NoCallInProgress /\ Tasks < MaxSerialTasks /\ QueueDownload(g)

SerialCallback == \E w \in Running : NoCallInProgress /\ CbTest(w)

NextSerial ==
    \/ SerialInstall
    \/ SerialCallback
    \/ \E t \in Threads : PqCheck(t)
    \/ \E t \in Threads : PqDispatch(t)
    \/ \E w \in Running : InstallGameCall(w)
    \/ \E w \in Running : CbDel(w)
    \/ \E w \in Running : CbRefresh(w)

SpecSerial == Init /\ [][NextSerial]_vars

(***************************************************************************)
(* SpecFair: the scheduler of Spec with every thread scheduled fairly and  *)
(* every install_game call that has started its transfer returning.        *)
(***************************************************************************)
\* install_game, line 87: mkdir raises OSError (the path exists as a file,
\* no permission, no space). The statement is outside the try of line 92:
\* the exception leaves install_game and run(), line 202 is not reached
\* and the thread dies.
MkdirIOError(w) ==
    /\ w.pc = "install"
    /\ Ends(w)
    /\ UNCHANGED <<download_queue, active_downloads, nstarted, uninstall_ret>>
    /\ DiskUnchanged /\ HarnessUnchanged

FairInstall ==
    \E g \in SchedGames : Tasks < MaxFairTasks /\ QueueDownload(g)

PqCheckStep == \E t \in Threads : PqCheck(t)
PqDispatchStep == \E t \in Threads : PqDispatch(t)
InstallGameStep == \E w \in Running : InstallGameCall(w)
CbTestStep == \E w \in Running : CbTest(w)
CbDelStep == \E w \in Running : CbDel(w)
CbRefreshStep == \E w \in Running : CbRefresh(w)

NextFair ==
    \/ FairInstall
    \/ PqCheckStep
    \/ PqDispatchStep
    \/ InstallGameStep
    \/ \E w \in Running : MkdirIOError(w)
    \/ CbTestStep
    \/ CbDelStep
    \/ CbRefreshStep

\* the user and the failure of mkdir are not bound to happen
Fairness ==
    /\ WF_vars(PqCheckStep)
    /\ WF_vars(PqDispatchStep)
    /\ WF_vars(InstallGameStep)
    /\ WF_vars(CbTestStep)
    /\ WF_vars(CbDelStep)
    /\ WF_vars(CbRefreshStep)

SpecFair == Init /\ [][NextFair]_vars /\ Fairness

(***************************************************************************)
(* SpecFifo: the scheduler of Spec with process_download_queue's pop(0)    *)
(* (line 574) and the start of the worker (lines 575-591) as two steps.    *)
(***************************************************************************)
\* threads that have popped a task and not yet started its worker
Holding == {t \in Threads : t.pc = "pq_start"}
Popped == nstarted + Cardinality(Holding)

\* process_download_queue, line 574
PqPop(t) ==
    /\ t.pc = "pq_pop"
    /\ IF download_queue = <<>>
       THEN /\ Ends(t)
            /\ download_queue' = download_queue
       ELSE /\ download_queue' = Tail(download_queue)
            /\ Becomes(t, [t EXCEPT !.pc = "pq_start",
                                    !.popped = Head(download_queue),
                                    !.ticket = Popped + 1])
    /\ UNCHANGED <<active_downloads, nstarted, uninstall_ret>>
    /\ DiskUnchanged /\ HarnessUnchanged

\* process_download_queue, lines 575-591
PqStart(t) ==
    /\ t.pc = "pq_start"
    /\ nstarted' = nstarted + 1
    /\ active_downloads' = active_downloads \cup {t.popped.name}
    /\ BecomesAndStarts(t,
           AfterPq([t EXCEPT !.popped = NoGame, !.ticket = 0]),
           Thread("worker", "install", t.popped))
    /\ UNCHANGED <<download_queue, uninstall_ret>>
    /\ DiskUnchanged /\ HarnessUnchanged

FifoInstall ==
    \E g \in SchedGames :
        Len(download_queue) + Popped < MaxFifoTasks /\ QueueDownload(g)

NextFifo ==
    \/ FifoInstall
    \/ \E t \in Threads : PqCheck(t)
    \/ \E t \in Threads : PqPop(t)
    \/ \E t \in Threads : PqStart(t)
    \/ \E w \in Running : InstallGameCall(w)
    \/ \E w \in Running : CbTest(w)
    \/ \E w \in Running : CbDel(w)
    \/ \E w \in Running : CbRefresh(w)

SpecFifo == Init /\ [][NextFifo]_vars

\* nothing is queued or running
EngineQuiet ==
    download_queue = <<>> /\ main.pc = "idle" /\ workers = EmptyBag

(***************************************************************************)
(* SpecRetry: install_game statement by statement, called again on what    *)
(* earlier calls left.  A call is served either by the server that is not  *)
(* trusted or by one that honours Range and serves the declared file.      *)
(***************************************************************************)
\* the answer of a server that holds file to a request with the Range
\* header bytes=offset- (-1: no header): the file, the rest of it, or 416
\* when the offset is not inside the file
HonestResponse(file, offset) ==
    IF offset = -1 THEN Resp(200, file)
    ELSE IF offset < Len(file)
    THEN Resp(206, SubSeq(file, offset + 1, Len(file)))
    ELSE Resp(416, <<>>)

\* _download_file, lines 127-138, against that server
HonestRequest(w) ==
    /\ w.pc = "request"
    /\ Becomes(w, [w EXCEPT
                     !.pc = "write",
                     !.resp = HonestResponse(DeclaredFile(w.game),
                                             RangeOffset(fs[w.game])),
                     !.ev = Append(@, "honest_request")])
    /\ DiskUnchanged /\ StepFrame

\* extractall raises OSError in a call the untrusted server has served
RetryExtractIOError(w) ==
    "honest_request" \notin Range(w.ev) /\ ExtractIOError(w)

RetryInstall ==
    \E g \in SeqGames : EngineQuiet /\ Tasks < MaxRetryTasks /\ QueueDownload(g)

NextRetry ==
    \/ RetryInstall
    \/ \E t \in Threads : PqCheck(t)
    \/ \E t \in Threads : PqDispatch(t)
    \/ \E w \in Running : Mkdir(w)
    \/ \E w \in Running : Request(w)
    \/ \E w \in Running : HonestRequest(w)
    \/ \E w \in Running : Write(w)
    \/ \E w \in Running : Verify(w)
    \/ \E w \in Running : Rename(w)
    \/ \E w \in Running : Extract(w)
    \/ \E w \in Running : RetryExtractIOError(w)
    \/ \E w \in Running : Unlink(w)
    \/ \E w \in Running : Rollback(w)
    \/ \E w \in Running : CbTest(w)
    \/ \E w \in Running : CbDel(w)
    \/ \E w \in Running : CbRefresh(w)

SpecRetry == Init /\ [][NextRetry]_vars

(***************************************************************************)
(* SpecRace: install_game statement by statement, with uninstall_game of   *)
(* the same title and version run by the main thread while the install is  *)
(* under way.  _extract_archive is two steps: ZipFile(archive_path) opens  *)
(* the archive, extractall writes its members.                             *)
(***************************************************************************)
\* install_game is past mkdir and has not finished final_file.unlink()
InFlight(w) ==
    w.pc \in {"request", "write", "verify", "rename", "extract",
              "extractall", "unlink"}

\* uninstall_game, lines 108-118, returning True while w installs the same
\* title and version. "uninstall" in ev is history.
RaceUninstall(w) ==
    /\ InFlight(w)
    /\ main.pc = "idle"
    /\ fs[w.game].dir
    /\ fs' = [fs EXCEPT ![w.game] = Absent]
    /\ titledirs' = ParentAfter(fs, titledirs, w.game)
    /\ uninstall_ret' = [game |-> w.game, ret |-> "true"]
    /\ Becomes(w, [w EXCEPT !.ev = Append(@, "uninstall")])
    /\ UNCHANGED <<download_queue, active_downloads, nstarted>>
    /\ HarnessUnchanged

\* _extract_archive, line 176: ZipFile(archive_path, 'r')
ExtractOpen(w) ==
    /\ w.pc = "extract"
    /\ LET o == ExtractOutcome(fs[w.game])
       IN IF o = "ok" THEN Step(w, "extractall", "extract_open")
          ELSE IF o = "bad" THEN Return(w, "false", "extract_bad")
          ELSE Step(w, "rollback", "extract_raise")
    /\ DiskUnchanged /\ StepFrame

\* extractall writes the members from the archive it holds open, and makes
\* the directories of a member's path that do not exist (os.makedirs in
\* ZipFile._extract_member): when the version directory has been removed
\* since the archive was opened, it is made again
ExtractAllOp(d) == IF d.dir THEN ExtractOp(d) ELSE ExtractOp(EmptyDir)

\* _extract_archive, line 177
ExtractAll(w) ==
    /\ w.pc = "extractall"
    /\ fs' = [fs EXCEPT ![w.game] = ExtractAllOp(@)]
    /\ titledirs' = titledirs \cup {w.game.name}
    /\ Step(w, "unlink", "extract_ok")
    /\ StepFrame

RaceInstall ==
    \E g \in SeqGames : EngineQuiet /\ Tasks < MaxRaceTasks /\ QueueDownload(g)

NextRace ==
    \/ RaceInstall
    \/ \E w \in Running : RaceUninstall(w)
    \/ \E t \in Threads : PqCheck(t)
    \/ \E t \in Threads : PqDispatch(t)
    \/ \E w \in Running : Mkdir(w)
    \/ \E w \in Running : Request(w)
    \/ \E w \in Running : Write(w)
    \/ \E w \in Running : Verify(w)
    \/ \E w \in Running : Rename(w)
    \/ \E w \in Running : ExtractOpen(w)
    \/ \E w \in Running : ExtractAll(w)
    \/ \E w \in Running : Unlink(w)
    \/ \E w \in Running : Rollback(w)
    \/ \E w \in Running : CbTest(w)
    \/ \E w \in Running : CbDel(w)
    \/ \E w \in Running : CbRefresh(w)

SpecRace == Init /\ [][NextRace]_vars

(***************************************************************************)
(* SpecStop: install_game statement by statement, with DownloadWorker.stop *)
(* called on a worker whose transfer is under way.                         *)
(***************************************************************************)
\* the worker is inside _download_file, before or after its one GET
Transferring(w) == w.pc \in {"request", "write"}

\* DownloadWorker.stop, lines 205-206
Stop(w) ==
    /\ Transferring(w) /\ ~w.stopped
    /\ Becomes(w, [w EXCEPT !.stopped = TRUE, !.ev = Append(@, "stop")])
    /\ DiskUnchanged /\ StepFrame

StopInstall ==
    \E g \in SeqGames : EngineQuiet /\ Tasks < MaxStopTasks /\ QueueDownload(g)

NextStop ==
    \/ StopInstall
    \/ \E t \in Threads : PqCheck(t)
    \/ \E t \in Threads : PqDispatch(t)
    \/ \E w \in Running : Mkdir(w)
    \/ \E w \in Running : Request(w)
    \/ \E w \in Running : Stop(w)
    \/ \E w \in Running : Write(w)
    \/ \E w \in Running : Verify(w)
    \/ \E w \in Running : Rename(w)
    \/ \E w \in Running : Extract(w)
    \/ \E w \in Running : Unlink(w)
    \/ \E w \in Running : Rollback(w)
    \/ \E w \in Running : CbTest(w)
    \/ \E w \in Running : CbDel(w)
    \/ \E w \in Running : CbRefresh(w)

SpecStop == Init /\ [][NextStop]_vars

SeqInstall ==
    \E g \in SeqGames : EngineQuiet /\ Tasks < MaxSeqTasks /\ QueueDownload(g)

SeqUninstall ==
    \E g \in SeqGames : EngineQuiet /\ UninstallGame(g)

SeqUninstallIOError ==
    \E g \in SeqGames : EngineQuiet /\ UninstallIOError(g)

NextSeq ==
    \/ SeqInstall
    \/ SeqUninstall
    \/ SeqUninstallIOError
    \/ \E t \in Threads : PqCheck(t)
    \/ \E t \in Threads : PqDispatch(t)
    \/ \E w \in Running : Mkdir(w)
    \/ \E w \in Running : Request(w)
    \/ \E w \in Running : Write(w)
    \/ \E w \in Running : Verify(w)
    \/ \E w \in Running : Rename(w)
    \/ \E w \in Running : Extract(w)
    \/ \E w \in Running : ExtractIOError(w)
    \/ \E w \in Running : Unlink(w)
    \/ \E w \in Running : Rollback(w)
    \/ \E w \in Running : CbTest(w)
    \/ \E w \in Running : CbDel(w)
    \/ \E w \in Running : CbRefresh(w)

SpecSeq == Init /\ [][NextSeq]_vars

(***************************************************************************)
(* Properties.                                                             *)
(***************************************************************************)
Listed == GetInstalledGames(fs, titledirs)

\* the running workers that satisfy P, counted with multiplicity
CountWorkers(P(_)) ==
    BagCardinality([w \in {x \in Running : P(x)} |-> CopiesIn(w, workers)])
InInstall(w) == w.pc = "install"
Downloading == CountWorkers(InInstall)

\* C1: in every reachable state at most 3 download workers have been
\* started and have not yet returned from install_game.
C1_AtMostThreeDownloading == Downloading <= MaxActive

QueuedCount(n) ==
    Cardinality({i \in DOMAIN download_queue : download_queue[i].name = n})
ActiveCount(n) == IF n \in active_downloads THEN 1 ELSE 0
InInstallOf(n) == CountWorkers(LAMBDA w : w.pc = "install" /\ w.game.name = n)

\* C2: in every reachable state each title occurs at most once across the
\* pending queue plus the active set, and has at most one live worker.
C2_OneTaskPerTitle ==
    \A n \in Names :
        /\ QueuedCount(n) + ActiveCount(n) <= 1
        /\ InInstallOf(n) <= 1

\* a worker whose install_game call has returned and whose completion
\* callback has not yet touched the scheduler
Returned(w) == w.pc = "cb_del"

\* every occurrence of event b in ev comes after an occurrence of event a
Precedes(ev, a, b) ==
    \A j \in DOMAIN ev : ev[j] = b => \E i \in 1..(j - 1) : ev[i] = a
\* every occurrence of b comes after an occurrence of some event of evs
PrecededByOneOf(ev, evs, b) ==
    \A j \in DOMAIN ev : ev[j] = b => \E i \in 1..(j - 1) : ev[i] \in evs

RaiseEvents == {"rename_raise", "extract_raise", "unlink_raise"}
ExtractEvents == {"extract_ok", "extract_bad", "extract_raise"}

\* the order of the steps verify, rename, extract, delete in one run of
\* install_game, and what a digest mismatch rules out
StepsOrdered(ev) ==
    /\ Precedes(ev, "verify_ok", "rename")
    /\ Precedes(ev, "verify_ok", "rename_raise")
    /\ \A e \in ExtractEvents : Precedes(ev, "rename", e)
    /\ Precedes(ev, "extract_ok", "unlink")
    /\ "verify_fail" \in Range(ev) =>
         Range(ev) \cap ({"rename", "rename_raise", "unlink"} \cup ExtractEvents)
           = {}

\* an archive in a version directory has the digest the catalog declares:
\* nothing is renamed to the archive's name before its digest was found equal
ArchivesVerified ==
    \A g \in Pairs : fs[g].zip # NoFile => Md5(fs[g].zip) = Checksum(g)

\* C3: in every run of install_game the rename and the extraction happen
\* only after the temp file's digest was found equal to the expected
\* checksum, a mismatch is followed by no rename and no extraction, the
\* step that deletes the archive on the way to returning True runs only
\* after extraction succeeded, and the exception handler deletes the
\* archive only after rename, extraction or that deletion has raised.
C3_StepOrder ==
    /\ ArchivesVerified
    /\ \A w \in Running :
         /\ StepsOrdered(w.ev)
         /\ PrecededByOneOf(w.ev, RaiseEvents, "rollback_archive")

\* C3 as stated: the archive is deleted only after extraction succeeded,
\* by whichever statement deletes it.
C3_DeletedOnlyAfterExtracted ==
    /\ ArchivesVerified
    /\ \A w \in Running :
         /\ StepsOrdered(w.ev)
         /\ Precedes(w.ev, "extract_ok", "rollback_archive")

\* an install_game call has returned after its exception handler deleted
\* an archive that was never extracted
C3_ArchiveRolledBack ==
    \E w \in Running :
        /\ Returned(w)
        /\ "rollback_archive" \in Range(w.ev)
        /\ "extract_ok" \notin Range(w.ev)

\* C4: when the digest of the downloaded bytes differs from the declared
\* checksum, install_game returns False and afterwards get_installed_games
\* does not report the pair, for a pair it did not report before the call.
C4_MismatchNotListed ==
    \A w \in Running :
        Returned(w) /\ "verify_fail" \in Range(w.ev) /\ w.game \notin w.before
          => w.ok = "false" /\ w.game \notin Listed

\* C5: get_installed_games reports a pair only if an install_game call has
\* extracted into the version directory and deleted its archive since the
\* directory was created.
C5_NoPartialVisibility == \A g \in Listed : fs[g].done

\* C6: when install_game has returned False, neither the temp file nor the
\* final archive is in the version directory.
C6_FailureLeavesNoFiles ==
    \A w \in Running :
        Returned(w) /\ w.ok = "false"
          => fs[w.game].tmp = NoFile /\ fs[w.game].zip = NoFile

\* p is a proper prefix of f, or empty
ProperOrEmptyPrefix(p, f) ==
    /\ p # NoFile
    /\ Len(p) <= Len(f)
    /\ p = SubSeq(f, 1, Len(p))
    /\ (Len(p) < Len(f) \/ p = <<>>)

\* the server answers a range request at offset |p| for f with the rest of
\* f (206) or with all of f (200)
CompletesFrom(r, p, f) ==
    \/ r.status = 206 /\ r.body = SubSeq(f, Len(p) + 1, Len(f))
    \/ r.status = 200 /\ r.body = f

\* the temp file after a download of f with no local file
FreshDownload(f) == WriteOp(DestDir(NoFile), 200, f).tmp

\* C7: for every file F and every proper or empty prefix P of F present as
\* the local temp file, a _download_file call that the server answers with
\* 206 and the remaining bytes, or 200 and all of F, leaves the temp file
\* with the bytes of a fresh download of F, and returns True.
C7_ResumeEqualsFresh ==
    (/\ xfer.pc = "done"
     /\ ProperOrEmptyPrefix(xfer.local, xfer.file)
     /\ CompletesFrom(xfer.resp, xfer.local, xfer.file))
      => /\ xfer.dest = FreshDownload(xfer.file)
         /\ xfer.dest = xfer.file
         /\ xfer.ok = "true"

\* a transfer resumed from a non-empty proper prefix with a 206 is done
C7_ResumedFromPrefix ==
    /\ xfer.pc = "done"
    /\ xfer.local # <<>>
    /\ ProperOrEmptyPrefix(xfer.local, xfer.file)
    /\ xfer.resp.status = 206
    /\ CompletesFrom(xfer.resp, xfer.local, xfer.file)

\* the version directories of g's title other than g's own
OtherVersions(f, g) ==
    {v \in Versions \ {g.version} : f[Game(g.name, v)].dir}

\* C8: uninstall_game on an existing version directory (rmtree and rmdir
\* not raising) removes the directory and returns True, removes the title
\* directory if and only if no other version of the title is left, and
\* get_installed_games afterwards reports every pair it reported before
\* except that one; on a pair with no directory it returns False and
\* changes nothing on disk.
C8_Uninstall ==
    [][\A g \in Pairs :
         UninstallGame(g) =>
           IF fs[g].dir
           THEN /\ uninstall_ret' = [game |-> g, ret |-> "true"]
                /\ ~fs'[g].dir
                /\ \A h \in Pairs \ {g} : fs'[h] = fs[h]
                /\ (g.name \notin titledirs') <=> (OtherVersions(fs, g) = {})
                /\ \A n \in Names \ {g.name} :
                     n \in titledirs' <=> n \in titledirs
                /\ GetInstalledGames(fs', titledirs') = Listed \ {g}
           ELSE /\ uninstall_ret' = [game |-> g, ret |-> "false"]
                /\ fs' = fs /\ titledirs' = titledirs]_vars

\* version 1 of title A has been uninstalled while version 2 stays
C8_UninstalledOneOfTwo ==
    /\ uninstall_ret = [game |-> Game("A", 1), ret |-> "true"]
    /\ ~fs[Game("A", 1)].dir
    /\ fs[Game("A", 2)].dir
    /\ "A" \in titledirs
    /\ Listed = {Game("A", 2)}

\* the order of two versions given by their components: the first position
\* at which they differ decides, a missing component counts as 0
RECURSIVE RefCompare(_, _)
RefCompare(a, b) ==
    IF a = <<>> /\ b = <<>> THEN 0
    ELSE LET x == IF a = <<>> THEN 0 ELSE Head(a)
             y == IF b = <<>> THEN 0 ELSE Head(b)
         IN IF x < y THEN -1
            ELSE IF x > y THEN 1
            ELSE RefCompare(IF a = <<>> THEN a ELSE Tail(a),
                            IF b = <<>> THEN b ELSE Tail(b))

V102 == <<"1", ".", "0", ".", "2">>
V110 == <<"1", ".", "1", ".", "0">>
V20 == <<"2", ".", "0">>
V199 == <<"1", ".", "9", ".", "9">>

\* C9: for dotted sequences of non-negative integers a and b,
\* _compare_versions(a, b) returns -1, 0 or 1 according to the first
\* position where the components differ, a missing trailing component read
\* as 0; compare(a, b) = -compare(b, a); and compare("1.0.2", "1.1.0") = -1,
\* compare("1.1.0", "1.1.0") = 0, compare("2.0", "1.9.9") = 1.
C9_CompareVersions ==
    cmp.pc = "done" =>
      /\ ~cmp.raised
      /\ cmp.r \in {-1, 0, 1}
      /\ cmp.r = RefCompare(cmp.ac, cmp.bc)
      /\ cmp.r = 0 - CompareVersions(cmp.b, cmp.a).r
      /\ (cmp.a = V102 /\ cmp.b = V110 => cmp.r = -1)
      /\ (cmp.a = V110 /\ cmp.b = V110 => cmp.r = 0)
      /\ (cmp.a = V20 /\ cmp.b = V199 => cmp.r = 1)

\* "1.0" has been compared with "1.0.0"
C9_MissingComponentCompared ==
    /\ cmp.pc = "done"
    /\ cmp.a = <<"1", ".", "0">>
    /\ cmp.b = <<"1", ".", "0", ".", "0">>
    /\ cmp.r = 0

\* the statements of an install_game call that returns True, in order:
\* the transfer (Downloading), the digest check (Verifying), rename,
\* extraction and deletion of the archive (Extracting)
HappyPath ==
    <<"mkdir", "request", "write", "verify_ok", "rename", "extract_ok",
      "unlink">>

\* C10: when the digest of the downloaded bytes matches the declared
\* checksum, the file is a valid archive and no statement raises, a queued
\* install runs transfer, digest check, extraction and archive deletion
\* once each in that order, its completion callback gets success = True,
\* and get_installed_games then reports what it reported before plus that
\* version under the entry's name, with neither the temp file nor the
\* archive in the version directory.
C10_HappyPath ==
    \A w \in Running :
        (/\ Returned(w)
         /\ "verify_ok" \in Range(w.ev)
         /\ IsZip(DeclaredFile(w.game))
         /\ Range(w.ev) \cap RaiseEvents = {})
          => /\ w.ev = HappyPath
             /\ w.ok = "true"
             /\ w.game \in Listed
             /\ Listed = w.before \cup {w.game}
             /\ fs[w.game].tmp = NoFile
             /\ fs[w.game].zip = NoFile
             /\ fs[w.game].ext

\* an install of version 1 of A into an empty install directory has
\* returned True
C10_InstallSucceeded ==
    \E w \in Running :
        /\ Returned(w)
        /\ w.ok = "true"
        /\ w.game = Game("A", 1)
        /\ w.before = {}
        /\ Listed = {Game("A", 1)}

\* C11: _perform_update launches the script and requests exit only after
\* the downloaded file's digest has been checked against the manifest
\* checksum and matched, for every manifest; on a mismatch the downloaded
\* file is deleted, no script is launched, no exit is requested and the
\* running executable is untouched.
C11_UpdateOnlyAfterDigestMatched ==
    /\ (upd.script \/ upd.quit) => upd.verified = "match"
    /\ upd.verified = "mismatch" =>
         /\ upd.file = NoFile
         /\ ~upd.script /\ ~upd.quit
         /\ upd.exe = OldExe

\* C12: a _download_file call issues exactly one GET; it sends the Range
\* header 'bytes=<size>-' if and only if the destination exists, <size>
\* being its length; on 200 the destination ends equal to the response
\* body, on 206 equal to its previous content followed by the body, and on
\* any other status the call returns False with the destination unchanged.
C12_OneGetRangeAndModes ==
    xfer.pc = "done" =>
      /\ xfer.gets = 1
      /\ xfer.range = (IF xfer.local = NoFile THEN -1 ELSE Len(xfer.local))
      /\ xfer.resp.status = 200 => xfer.dest = xfer.resp.body
      /\ xfer.resp.status = 206 =>
           xfer.dest = (IF xfer.local = NoFile THEN <<>> ELSE xfer.local)
                         \o xfer.resp.body
      /\ xfer.resp.status \notin {200, 206} =>
           xfer.ok = "false" /\ xfer.dest = xfer.local

\* a status other than 200 and 206 has been answered to a request with a
\* Range header
C12_FailedOnOtherStatus ==
    /\ xfer.pc = "done"
    /\ xfer.resp.status = 404
    /\ xfer.range = 2
    /\ xfer.dest = xfer.local
    /\ xfer.ok = "false"

\* C13: _make_request never propagates a fault to its caller: when
\* building the connection, sending the request or reading the response
\* raises, it returns a status other than 200 and 206 with an empty
\* payload.
C13_NoFaultPropagates ==
    req.pc = "done" /\ req.fault # "none" =>
      /\ ~req.propagated
      /\ req.ret.status \notin {200, 206}
      /\ req.ret.status # 0
      /\ req.ret.body = <<>>

\* C14: a load_games call whose fetch succeeds (and whose save does not
\* raise) replaces the whole persisted catalog with the fetched one and
\* records the time of the fetch; a call whose fetch fails (another status,
\* a transport error, an undecodable payload) leaves the persisted snapshot
\* and its timestamp unchanged and shows the last successfully fetched
\* catalog, however old it is.
C14_FetchCatalog ==
    [][\A f \in Fetches :
         LoadGames(f) =>
           IF f.kind = "ok"
           THEN /\ cat'.disk = [games |-> f.games, last_update |-> cat'.now]
                /\ cat'.cache = cat'.disk
                /\ cat'.shown = f.games
           ELSE /\ cat'.disk = cat.disk
                /\ cat'.cache = cat.cache
                /\ cat'.shown = cat.fetched]_vars

\* a fetch has failed three calls after the last one that succeeded, and
\* the catalog fetched then is shown
C14_StaleCatalogShown ==
    /\ cat.now = 4
    /\ cat.disk = [games |-> "K2", last_update |-> 1]
    /\ cat.cache = cat.disk
    /\ cat.shown = "K2"

\* download_completed, line 598: all that is reported of an install, from
\* the boolean install_game returned
StatusText(success) == IF success = "true" THEN "Completed" ELSE "Failed"

FailureReasons ==
    {"NetworkError", "ChecksumMismatch", "CorruptArchive", "WriteError"}

\* C15: every failed install reports to its caller a failure together with
\* a reason that is one of NetworkError, ChecksumMismatch, CorruptArchive,
\* WriteError.
C15_FailureHasReason ==
    \A w \in Running :
        Returned(w) /\ w.ok = "false" => StatusText(w.ok) \in FailureReasons

\* a thread is between its first and its last access to the queue and the
\* active set: it has appended (queue_download) or deleted its key
\* (download_completed) and has not yet left process_download_queue
InSection(t) == t.pc \in {"pq_check", "pq_pop"}
ThreadsInSection ==
    (IF InSection(main) THEN 1 ELSE 0) + CountWorkers(InSection)

\* C16: no two threads are inside their check-cap / pop-queue /
\* insert-or-delete-active sequence at the same time.
C16_SingleCriticalSection == ThreadsInSection <= 1

\* the steps a callback has made when it enters process_download_queue:
\* the test of line 601 and, unless the key was absent, the deletion
CbRemoved == {<<"test", "del">>, <<"test", "absent">>}

NoSchedulerCall == main.pc = "idle" /\ \A w \in Running : w.pc = "install"

\* C18: in every state where no enqueue and no completion callback is in
\* progress, a non-empty pending queue implies that the active set holds
\* exactly 3 titles.
C18_NoIdleSlot ==
    NoSchedulerCall /\ download_queue # <<>> =>
      Cardinality(active_downloads) = MaxActive

(***************************************************************************)
(* C19.                                                                    *)
(***************************************************************************)
InQueue(n) == \E i \in 1..Len(download_queue) : download_queue[i].name = n
Pending(n) == InQueue(n) \/ n \in active_downloads

\* C19: every enqueued task is eventually dispatched and ends, whatever
\* step of it fails, and from then on its title is in neither
\* download_queue nor active_downloads, given fair scheduling and transfers
\* that return.
C19_EveryTaskEnds ==
    \A g \in SchedGames : Pending(g.name) ~> ~Pending(g.name)

(***************************************************************************)
(* C20.                                                                    *)
(***************************************************************************)
\* C20: pending installs are dispatched in FIFO order: a title appended to
\* download_queue before another title has its worker started before the
\* other's. pop(0) hands the tasks out in the order of the appends, so
\* this says: no worker is started while a task of another title that was
\* popped earlier is still held, its worker not started.
C20_FifoDispatch ==
    [][\A t \in Holding :
         PqStart(t) =>
           \A h \in Holding :
             h.ticket < t.ticket => h.popped.name = t.popped.name]_vars

(***************************************************************************)
(* C21.                                                                    *)
(***************************************************************************)
\* the version directory holds a file or an extracted member
HasEntries(d) == d.tmp # NoFile \/ d.zip # NoFile \/ d.ext

\* C21: with no install or uninstall under way, get_installed_games
\* reports version V of a title if and only if <root>/<title>/<V> exists
\* and is not empty; an empty version directory is not reported.
C21_ListedIffNonEmpty ==
    EngineQuiet =>
      \A g \in Pairs : g \in Listed <=> fs[g].dir /\ HasEntries(fs[g])

(***************************************************************************)
(* C22, C23.                                                               *)
(***************************************************************************)
\* _perform_update has been entered, or something of it is left
UpdateStarted ==
    \/ upd.pc \in {"request", "write", "verify", "script", "quit", "replaced"}
    \/ upd.resp # NoResp \/ upd.file # NoFile \/ upd.script \/ upd.quit
    \/ upd.exe # OldExe

RemoteIsNewer ==
    /\ upd.mkind = "ok"
    /\ CompareVersions(LauncherVersion, upd.latest) =
         [raised |-> FALSE, r |-> -1]

\* C22: on both paths the download of a new launcher starts only when the
\* manifest's version compares strictly newer than the running one and the
\* user has confirmed; otherwise nothing is downloaded, no script is
\* written and no exit is requested.
C22_UpdateOnlyNewerAndConfirmed ==
    UpdateStarted => RemoteIsNewer /\ upd.confirmed = "yes"

\* the background check found a newer version, the user confirmed and the
\* new launcher has been requested
C22_BackgroundUpdateStarted ==
    upd.path = "background" /\ upd.pc = "write" /\ upd.confirmed = "yes"

\* C23: a manifest that cannot be fetched or parsed gives no notice and
\* changes nothing in the background check, gives an error notice in the
\* explicit check, and in neither case is an update downloaded or the
\* process asked to exit.
FetchFailed == upd.mkind \in {"raise", "status", "garbage"}
C23_ManifestFailure ==
    FetchFailed =>
      /\ ~UpdateStarted
      /\ upd.confirmed = "none"
      /\ upd.path = "background" => upd.notice = "none"
      /\ upd.path = "explicit" /\ upd.pc = "done" => upd.notice = "error"

C23_ExplicitFailureShown ==
    FetchFailed /\ upd.path = "explicit" /\ upd.pc = "done"

(***************************************************************************)
(* C24.                                                                    *)
(***************************************************************************)
\* C24: a malformed version string does not make the comparison fail:
\* _compare_versions returns -1, 0 or 1 for every pair of strings.
C24_MalformedNeverRaises ==
    cmp.pc = "done" => ~cmp.raised /\ cmp.r \in {-1, 0, 1}

(***************************************************************************)
(* C25.                                                                    *)
(***************************************************************************)
\* the statements install_game executed after stop() was called
AfterStop(ev) ==
    LET k == CHOOSE i \in 1..Len(ev) :
                 ev[i] = "stop" /\ \A j \in 1..(i - 1) : ev[j] # "stop"
    IN SubSeq(ev, k + 1, Len(ev))

\* C25: after stop() is called on a worker that is transferring, the
\* worker does not go on to verify, rename, extract or report a successful
\* install.
C25_StopEndsTransfer ==
    \A w \in Running :
        "stop" \in Range(w.ev) =>
          /\ w.ok # "true"
          /\ Range(AfterStop(w.ev)) \cap
               {"verify_ok", "verify_fail", "rename", "extract_ok", "unlink"} = {}

(***************************************************************************)
(* C26.                                                                    *)
(***************************************************************************)
\* C26: whatever earlier install_game calls have left in the version
\* directory, a call served by a server that honours Range and serves the
\* declared file, a valid archive, returns True.
C26_RetrySucceeds ==
    \A w \in Running :
        /\ Returned(w)
        /\ "honest_request" \in Range(w.ev)
        /\ IsZip(DeclaredFile(w.game))
        => w.ok = "true"

(***************************************************************************)
(* C27.                                                                    *)
(***************************************************************************)
\* C27: when uninstall_game of the title and version a worker is
\* installing has returned True between two steps of the install,
\* install_game returns False, the completion callback is reached and
\* get_installed_games does not report the pair.
C27_UninstallWins ==
    \A w \in Running :
        Returned(w) /\ "uninstall" \in Range(w.ev)
          => w.ok = "false" /\ w.game \notin Listed

=============================================================================
